---- MODULE Spec2Model ----
(***************************************************************************)
(* Model of the page/limit query-option extraction of the QA workshop      *)
(* (api/src/utils.ts: asNumber, extractPageOptions) as the workshop text   *)
(* gives it.                                                               *)
(*                                                                         *)
(* A string is a sequence of one-character strings, so that the unary plus *)
(* of asNumber can be modelled by what it does to the characters.  A       *)
(* number is a record [k, neg, m, e]: k = "num" stands for (-1)^neg * m *  *)
(* 10^e with m carrying no trailing zero (m = 0 forces e = 0), k =         *)
(* "Infinity" for the two infinities and k = "NaN" for not-a-number.       *)
(***************************************************************************)
EXTENDS Integers, Sequences, FiniteSets, TLC

\* ------------------------------------------------------------------ bounds

\* Longest string generated over GenChars for a query option.
MaxLen == 2

\* Number of callers that may be inside extractPageOptions at once (SpecConc).
NumCallers == 2

\* ------------------------------------------------------- JavaScript values

Str(s) == [tag |-> "string", s |-> s, items |-> <<>>]
Arr(items) == [tag |-> "array", s |-> <<>>, items |-> items]
Obj(items) == [tag |-> "object", s |-> <<>>, items |-> items]
Undefined == [tag |-> "undefined", s |-> <<>>, items |-> <<>>]

\* typeof v, for the values a parsed query string can hold.
TypeOf(v) ==
    CASE v.tag = "string" -> "string"
      [] v.tag = "undefined" -> "undefined"
      [] OTHER -> "object"

NaN == [k |-> "NaN", neg |-> FALSE, m |-> 0, e |-> 0]
Infinity(neg) == [k |-> "Infinity", neg |-> neg, m |-> 0, e |-> 0]
Num(neg, m, e) == [k |-> "num", neg |-> neg, m |-> m, e |-> e]

\* isNaN(n) for a value that is already a number.
isNaN(n) == n.k = "NaN"

\* ------------------------------------------- unary plus: StringToNumber

WhiteSpace == {" ", "\t", "\n", "\r"}
DecDigits == <<"0", "1", "2", "3", "4", "5", "6", "7", "8", "9">>
HexLower == DecDigits \o <<"a", "b", "c", "d", "e", "f">>
HexUpper == DecDigits \o <<"A", "B", "C", "D", "E", "F">>

IsDigitIn(c, base) ==
    \E i \in 1..base : HexLower[i] = c \/ HexUpper[i] = c

DigitVal(c) ==
    (CHOOSE i \in 1..Len(HexLower) : HexLower[i] = c \/ HexUpper[i] = c) - 1

\* The element of a one-element set: The({F(x) : x \in {v}}) is F(v), with
\* v computed once.
The(S) == CHOOSE x \in S : TRUE

\* The first index from i on, going by step, whose character is no white
\* space (an index outside 1..Len(s) when there is none).
RECURSIVE SkipWhiteSpace(_, _, _)
SkipWhiteSpace(s, i, step) ==
    IF i \in 1..Len(s) /\ s[i] \in WhiteSpace
    THEN SkipWhiteSpace(s, i + step, step)
    ELSE i

\* s without its leading and trailing white space.
Trim(s) == SubSeq(s, SkipWhiteSpace(s, 1, 1), SkipWhiteSpace(s, Len(s), 0 - 1))

\* The last index of the run of digits of the base that starts at index i
\* of s (i - 1 when s has no digit at i).
RECURSIVE DigitRunEnd(_, _, _)
DigitRunEnd(s, i, base) ==
    IF i <= Len(s) /\ IsDigitIn(s[i], base)
    THEN DigitRunEnd(s, i + 1, base)
    ELSE i - 1

\* Value of a sequence of digits of the base (0 for the empty sequence).
RECURSIVE DigitsValue(_, _, _)
DigitsValue(s, n, base) ==
    IF n = 0 THEN 0
    ELSE DigitsValue(s, n - 1, base) * base + DigitVal(s[n])

RECURSIVE NumDigits(_)
NumDigits(m) == IF m < 10 THEN 1 ELSE 1 + NumDigits(m \div 10)

RECURSIVE StripZeros(_, _, _)
StripZeros(neg, m, e) ==
    IF m % 10 = 0 THEN StripZeros(neg, m \div 10, e + 1) ELSE Num(neg, m, e)

\* The double nearest to (-1)^neg * m * 10^e, for the short numerals the
\* model generates: beyond the largest finite double (1.79e308) it is an
\* infinity, below the smallest (4.9e-324) a zero.
Normalize(neg, m, e) ==
    IF m = 0 THEN Num(neg, 0, 0)
    ELSE IF NumDigits(m) + e - 1 > 308 THEN Infinity(neg)
    ELSE IF NumDigits(m) + e - 1 < 0 - 324 THEN Num(neg, 0, 0)
    ELSE StripZeros(neg, m, e)

\* ExponentPart (optional): rest is what follows the mantissa m, which has
\* fracLen digits after its point.
WithExponent(neg, m, fracLen, rest) ==
    LET hasSign == Len(rest) > 1 /\ rest[2] \in {"+", "-"}
        digits == SubSeq(rest, IF hasSign THEN 3 ELSE 2, Len(rest))
        x == DigitsValue(digits, Len(digits), 10)
    IN  IF rest = <<>> THEN Normalize(neg, m, 0 - fracLen)
        ELSE IF rest[1] \notin {"e", "E"} THEN NaN
        ELSE IF digits = <<>> \/ DigitRunEnd(digits, 1, 10) # Len(digits) THEN NaN
        ELSE IF hasSign /\ rest[2] = "-" THEN Normalize(neg, m, 0 - x - fracLen)
        ELSE Normalize(neg, m, x - fracLen)

\* The mantissa of s: i integer digits, then (hasDot) a point and j digits.
Mantissa(neg, s, i, hasDot, j) ==
    LET digits == SubSeq(s, 1, i) \o SubSeq(s, i + 2, i + 1 + j)
        consumed == i + j + (IF hasDot THEN 1 ELSE 0)
    IN  IF i + j = 0 THEN NaN
        ELSE The({WithExponent(neg, m, j, rest) :
                    m \in {DigitsValue(digits, i + j, 10)},
                    rest \in {SubSeq(s, consumed + 1, Len(s))}})

\* The fraction of s after its i integer digits.
Fraction(neg, s, i) ==
    IF i < Len(s) /\ s[i + 1] = "."
    THEN The({Mantissa(neg, s, i, TRUE, last - i - 1) :
                last \in {DigitRunEnd(s, i + 2, 10)}})
    ELSE Mantissa(neg, s, i, FALSE, 0)

\* StrUnsignedDecimalLiteral:  Infinity | digits [. [digits]] [exp]
\*                                      | . digits [exp]
UnsignedDecimal(neg, s) ==
    IF s = <<"I", "n", "f", "i", "n", "i", "t", "y">> THEN Infinity(neg)
    ELSE The({Fraction(neg, s, i) : i \in {DigitRunEnd(s, 1, 10)}})

\* NonDecimalIntegerLiteral: 0x, 0o, 0b (either case) and at least one digit.
NonDecimalBase(s) ==
    IF Len(s) > 2 /\ s[1] = "0"
    THEN CASE s[2] \in {"x", "X"} -> 16
           [] s[2] \in {"o", "O"} -> 8
           [] s[2] \in {"b", "B"} -> 2
           [] OTHER -> 0
    ELSE 0

\* StrNumericLiteral, for a string t without white space around it.
StrNumericLiteral(t, base) ==
    IF t = <<>> THEN Num(FALSE, 0, 0)
    ELSE IF base # 0 THEN
        IF DigitRunEnd(t, 3, base) = Len(t)
        THEN Normalize(FALSE, DigitsValue(SubSeq(t, 3, Len(t)), Len(t) - 2, base), 0)
        ELSE NaN
    ELSE IF Head(t) = "-" THEN The({UnsignedDecimal(TRUE, u) : u \in {Tail(t)}})
    ELSE IF Head(t) = "+" THEN The({UnsignedDecimal(FALSE, u) : u \in {Tail(t)}})
    ELSE UnsignedDecimal(FALSE, t)

\* +s for a string s (ECMAScript StringToNumber).
ToNumber(s) ==
    The({StrNumericLiteral(t, NonDecimalBase(t)) : t \in {Trim(s)}})

\* --------------------------------------------------------- query mappings

Keys == {"page", "limit", "sort"}

\* query[optionName]: undefined when the mapping has no such key.
Get(query, optionName) ==
    IF optionName \in DOMAIN query THEN query[optionName] ELSE Undefined

\* The mapping a query-string parser produces: a key is present only with a
\* value (a string, an array of strings or a nested object).
MkQuery(pv, lv, ov) ==
    LET all == [page |-> pv, limit |-> lv, sort |-> ov]
        dom == {k \in Keys : all[k] # Undefined}
    IN  [k \in dom |-> all[k]]

GenChars == {"0", "1", "-", ".", " ", "p"}

RECURSIVE StringsUpTo(_)
StringsUpTo(n) ==
    IF n = 0 THEN {<<>>}
    ELSE LET shorter == StringsUpTo(n - 1)
         IN  shorter \cup {Append(s, c) : s \in shorter, c \in GenChars}

\* Strings of the workshop's tests and feature file, and numerals the
\* generated strings are too short for.
ExampleStrings ==
    { <<"1", "0">>, <<"1", "5">>, <<"5">>,
      <<"p", "a", "g", "e", "1">>,
      <<"-", "1">>, <<"1", ".", "5">>, <<"1", "e", "1">>,
      <<"0", "x", "1", "0">>,
      <<"I", "n", "f", "i", "n", "i", "t", "y">> }

OptionStrings == StringsUpTo(MaxLen) \cup ExampleStrings

\* What a parsed query string can hold under a key; Undefined: no such key.
OptionValues ==
    {Undefined, Arr(<< <<"1">> >>), Arr(<< <<"1">>, <<"1", "0">> >>),
     Obj(<< <<"1">> >>)}
        \cup {Str(s) : s \in OptionStrings}

OtherValues == {Undefined, Str(<<"1">>)}

Queries ==
    {MkQuery(pv, lv, ov) : pv \in OptionValues, lv \in OptionValues,
                           ov \in OtherValues}

\* The query mappings of concurrent callers: the cases of the workshop's
\* unit tests and one of each kind of invalid value.
FewValues ==
    {Undefined, Str(<<"1">>), Str(<<"1", "0">>), Str(<<>>),
     Str(<<"p", "a", "g", "e", "1">>)}

FewQueries == {MkQuery(pv, lv, Undefined) : pv \in FewValues, lv \in FewValues}

\* ------------------------------------------------------------------ state

VARIABLES
    requestQuery, \* requestQuery[c]: the mapping caller c passed to
                  \* extractPageOptions
    pc,         \* pc[c]: "idle", "page", "limit", "return" or "done"
    page,       \* page[c]: the local page of c's call
    limit,      \* limit[c]: the local limit of c's call
    outcome     \* outcome[c]: how c's call ended

\* ------------------------------------------------------------- asNumber

\* What a call of asNumber ends in: a returned value or a thrown Error.
ReturnValue(n) == [threw |-> FALSE, n |-> n, message |-> <<>>]
Throw(message) == [threw |-> TRUE, n |-> NaN, message |-> message]

\* `${optionName} needs to be a valid number`
InvalidFormatError(optionName) == <<optionName, " needs to be a valid number">>

\* asNumber reading query["page"] whatever the option asked for.
asNumberHardCodedKey(query, optionName) ==
    LET queryOption == Get(query, "page")
        invalidFormatError == InvalidFormatError(optionName)
    IN  IF TypeOf(queryOption) = "string"
        THEN The({IF isNaN(n) THEN Throw(invalidFormatError) ELSE ReturnValue(n) :
                    n \in {ToNumber(queryOption.s)}})
        ELSE Throw(invalidFormatError)

\* asNumber whose else branch lacks its throw: a value that is no string
\* makes it return undefined.
asNumberElseReturns(query, optionName) ==
    LET queryOption == Get(query, optionName)
        invalidFormatError == InvalidFormatError(optionName)
    IN  IF TypeOf(queryOption) = "string"
        THEN The({IF isNaN(n) THEN Throw(invalidFormatError) ELSE ReturnValue(n) :
                    n \in {ToNumber(queryOption.s)}})
        ELSE ReturnValue([k |-> "undefined", neg |-> FALSE, m |-> 0, e |-> 0])

\* asNumber whose message names page whatever the option is.
asNumberMessageNamesPage(query, optionName) ==
    LET queryOption == Get(query, optionName)
        invalidFormatError == InvalidFormatError("page")
    IN  IF TypeOf(queryOption) = "string"
        THEN The({IF isNaN(n) THEN Throw(invalidFormatError) ELSE ReturnValue(n) :
                    n \in {ToNumber(queryOption.s)}})
        ELSE Throw(invalidFormatError)

\* asNumber without the isNaN check.
asNumberNoNaNCheck(query, optionName) ==
    LET queryOption == Get(query, optionName)
        invalidFormatError == InvalidFormatError(optionName)
    IN  IF TypeOf(queryOption) = "string"
        THEN ReturnValue(ToNumber(queryOption.s))
        ELSE Throw(invalidFormatError)

\* asNumber without the typeof check: +queryOption turns an array into the
\* string of its items joined by commas, undefined and an object into NaN.
asNumberCoercesAny(query, optionName) ==
    LET queryOption == Get(query, optionName)
        invalidFormatError == InvalidFormatError(optionName)
        coerced == CASE queryOption.tag = "string" -> ToNumber(queryOption.s)
                     [] queryOption.tag = "array" /\ Len(queryOption.items) = 1 ->
                            ToNumber(queryOption.items[1])
                     [] OTHER -> NaN
    IN  The({IF isNaN(n) THEN Throw(invalidFormatError) ELSE ReturnValue(n) :
                n \in {coerced}})

\* asNumber that is not reentrant: it fails while another call is under way.
asNumberNotReentrant(query, optionName) ==
    LET queryOption == Get(query, optionName)
        invalidFormatError == InvalidFormatError(optionName)
        underWay == {c \in DOMAIN pc : pc[c] \in {"page", "limit", "return"}}
    IN  IF TypeOf(queryOption) = "string" /\ Cardinality(underWay) < 2
        THEN The({IF isNaN(n) THEN Throw(invalidFormatError) ELSE ReturnValue(n) :
                    n \in {ToNumber(queryOption.s)}})
        ELSE Throw(invalidFormatError)

\* asNumber looking under the key sort when the option asked for is absent.
asNumberFallsBackToSort(query, optionName) ==
    LET queryOption == IF optionName \in DOMAIN query
                       THEN Get(query, optionName)
                       ELSE Get(query, "sort")
        invalidFormatError == InvalidFormatError(optionName)
    IN  IF TypeOf(queryOption) = "string"
        THEN The({IF isNaN(n) THEN Throw(invalidFormatError) ELSE ReturnValue(n) :
                    n \in {ToNumber(queryOption.s)}})
        ELSE Throw(invalidFormatError)

\* asNumber with a range check added: a number below zero is thrown out.
asNumberRejectsNegative(query, optionName) ==
    LET queryOption == Get(query, optionName)
        invalidFormatError == InvalidFormatError(optionName)
    IN  IF TypeOf(queryOption) = "string"
        THEN The({IF isNaN(n) \/ (n.neg /\ (n.k = "Infinity" \/ n.m > 0))
                  THEN Throw(invalidFormatError)
                  ELSE ReturnValue(n) :
                    n \in {ToNumber(queryOption.s)}})
        ELSE Throw(invalidFormatError)

RECURSIVE Pow10(_)
Pow10(x) == IF x = 0 THEN 1 ELSE 10 * Pow10(x - 1)

\* asNumber coercing with parseInt-like truncation: the digits after the
\* decimal point are dropped.
asNumberTruncates(query, optionName) ==
    LET queryOption == Get(query, optionName)
        invalidFormatError == InvalidFormatError(optionName)
    IN  IF TypeOf(queryOption) = "string"
        THEN The({IF isNaN(n) THEN Throw(invalidFormatError)
                  ELSE IF n.k = "num" /\ n.e < 0
                  THEN ReturnValue(Normalize(n.neg, n.m \div Pow10(0 - n.e), 0))
                  ELSE ReturnValue(n) :
                    n \in {ToNumber(queryOption.s)}})
        ELSE Throw(invalidFormatError)

asNumber(query, optionName) ==
    LET queryOption == Get(query, optionName)
        invalidFormatError == InvalidFormatError(optionName)
    IN  IF TypeOf(queryOption) = "string"
        THEN The({IF isNaN(n) THEN Throw(invalidFormatError) ELSE ReturnValue(n) :
                    n \in {ToNumber(queryOption.s)}})
        ELSE Throw(invalidFormatError)

\* asNumber deleting the option it has read from the mapping.
QueryAfterAsNumberDeleted(query, optionName) ==
    [k \in DOMAIN query \ {optionName} |-> query[k]]

\* The mapping after asNumber(query, optionName): asNumber reads
\* query[optionName] and assigns to nothing of query.
QueryAfterAsNumber(query, optionName) == query

\* ------------------------------------------- Cucumber step definitions
\* features/step_definitions/helpRequests.js.  The three steps are arrow
\* functions, so this is the one object of the module: page, limit and
\* apiResponse live on it from one scenario to the next.

\* A JavaScript value: its type t and, in n, the number itself, 1 for true,
\* or the length of an array or of a string.
JsUndefined == [t |-> "undefined", n |-> 0]
JsNull == [t |-> "null", n |-> 0]
JsBoolean(b) == [t |-> "boolean", n |-> IF b THEN 1 ELSE 0]
JsNumber(n) == [t |-> "number", n |-> n]
JsString(len) == [t |-> "string", n |-> len]
JsArray(len) == [t |-> "array", n |-> len]
JsObject == [t |-> "object", n |-> 0]

\* if (v): undefined, null, false, 0 and "" are falsy.
Truthy(v) ==
    CASE v.t \in {"undefined", "null"} -> FALSE
      [] v.t \in {"boolean", "number", "string"} -> v.n # 0
      [] OTHER -> TRUE

\* v.length of a truthy v: arrays and strings have one.
LengthOf(v) == IF v.t \in {"array", "string"} THEN JsNumber(v.n) ELSE JsUndefined

RECURSIVE Digits(_)
Digits(n) ==
    IF n < 10 THEN <<DecDigits[n + 1]>>
    ELSE Digits(n \div 10) \o <<DecDigits[(n % 10) + 1]>>

\* `${v}` of a number or of undefined.
Template(v) ==
    IF v.t = "undefined" THEN <<"u", "n", "d", "e", "f", "i", "n", "e", "d">>
    ELSE IF v.n < 0 THEN <<"-">> \o Digits(0 - v.n)
    ELSE Digits(v.n)

\* The Examples of help_requests.feature, and a row asking for nothing.
ExampleRows ==
    {[page |-> 1, limit |-> 5, number |-> 5],
     [page |-> 2, limit |-> 10, number |-> 10],
     [page |-> 3, limit |-> 15, number |-> 15]}
Rows == ExampleRows \cup {[page |-> 1, limit |-> 0, number |-> 0]}

\* The scenario outline of the feature, and a scenario that leaves the When
\* step out.
OutlineSteps == <<"Given", "When", "Then">>
StepLists == {OutlineSteps, <<"Given", "Then">>}
Scenarios ==
    {[steps |-> st, page |-> r.page, limit |-> r.limit, number |-> r.number] :
        st \in StepLists, r \in Rows}
NoScenario == [steps |-> <<>>, page |-> 0, limit |-> 0, number |-> 0]

\* fetch(`http://localhost:3000/v1/help-request?page=${p}&limit=${l}`)
RequestFor(p, l) ==
    [path |-> "/v1/help-request",
     query |-> MkQuery(Str(Template(p)), Str(Template(l)), Undefined)]
NoRequest == [path |-> "", query |-> <<>>]

\* What the server may answer: a body that decodes to a JSON value, or one
\* that is no JSON.
JsonValues ==
    {JsArray(r.number) : r \in Rows} \cup
    {JsObject, JsNull, JsBoolean(FALSE), JsBoolean(TRUE),
     JsNumber(0), JsNumber(5), JsString(0), JsString(5)}
Responses ==
    {[kind |-> "json", json |-> v] : v \in JsonValues} \cup
    {[kind |-> "malformed", json |-> JsUndefined]}
NoResponse == [kind |-> "none", json |-> JsUndefined]

\* The result Cucumber records for a step.
Pending == [status |-> "pending", operator |-> "", message |-> ""]
Passed == [status |-> "passed", operator |-> "", message |-> ""]
Skipped == [status |-> "skipped", operator |-> "", message |-> ""]
Failed(operator, message) ==
    [status |-> "failed", operator |-> operator, message |-> message]

VARIABLES
    thisPage,       \* this.page
    thisLimit,      \* this.limit
    apiResponse,    \* this.apiResponse
    scenario,       \* the scenario Cucumber is running
    stepNo,         \* the index of its step to run next
    awaiting,       \* the promise the When step awaits: "none", "fetch", "json"
    request,        \* the request fetch was called with
    response,       \* the response fetch resolved to
    results         \* the result of each step of the scenario

callVars == <<requestQuery, pc, page, limit, outcome>>
stepVars == <<thisPage, thisLimit, apiResponse, scenario, stepNo, awaiting,
              request, response, results>>

StepsInit ==
    /\ thisPage = JsUndefined
    /\ thisLimit = JsUndefined
    /\ apiResponse = JsUndefined
    /\ scenario = NoScenario
    /\ stepNo = 1
    /\ awaiting = "none"
    /\ request = NoRequest
    /\ response = NoResponse
    /\ results = <<>>

NumSteps == Len(scenario.steps)
AtStep(name) ==
    /\ stepNo <= NumSteps
    /\ scenario.steps[stepNo] = name
    /\ awaiting = "none"

\* The step under way passes: Cucumber goes on to the next one.
StepPasses ==
    /\ results' = [results EXCEPT ![stepNo] = Passed]
    /\ stepNo' = stepNo + 1
    /\ awaiting' = "none"

\* The step under way fails: Cucumber skips the steps after it.
StepFails(failure) ==
    /\ results' = [i \in 1..NumSteps |->
                      IF i = stepNo THEN failure
                      ELSE IF i > stepNo THEN Skipped
                      ELSE results[i]]
    /\ stepNo' = NumSteps + 1
    /\ awaiting' = "none"

\* Cucumber starts a scenario when none is under way; nothing resets this.
BeginScenario ==
    /\ stepNo > NumSteps
    /\ \E sc \in Scenarios :
           /\ scenario' = sc
           /\ results' = [i \in 1..Len(sc.steps) |-> Pending]
    /\ stepNo' = 1
    /\ request' = NoRequest
    /\ response' = NoResponse
    /\ UNCHANGED <<thisPage, thisLimit, apiResponse, awaiting>>
    /\ UNCHANGED callVars

\* Given("{int} and {int}", (page, limit) => { ... })
Given ==
    /\ AtStep("Given")
    /\ thisPage' = JsNumber(scenario.page)
    /\ thisLimit' = JsNumber(scenario.limit)
    /\ StepPasses
    /\ UNCHANGED <<apiResponse, scenario, request, response>>
    /\ UNCHANGED callVars

\* When("a User calls help request API", async () => { ... }), up to its
\* first await: fetch is called with the URL made of this.page, this.limit.
When ==
    /\ AtStep("When")
    /\ request' = RequestFor(thisPage, thisLimit)
    /\ awaiting' = "fetch"
    /\ UNCHANGED <<thisPage, thisLimit, apiResponse, scenario, stepNo,
                   response, results>>
    /\ UNCHANGED callVars

\* The When step without its awaits: what fetch resolved to is stored at
\* once, before the body is decoded.
FetchFulfilledStoresAtOnce ==
    /\ awaiting = "fetch"
    /\ \E r \in Responses :
           /\ response' = r
           /\ apiResponse' = r.json
    /\ awaiting' = "json"
    /\ UNCHANGED <<thisPage, thisLimit, scenario, stepNo, request, results>>
    /\ UNCHANGED callVars

\* const response = await fetch(...) resolves; response.json() is called.
FetchFulfilled ==
    /\ awaiting = "fetch"
    /\ \E r \in Responses : response' = r
    /\ awaiting' = "json"
    /\ UNCHANGED <<thisPage, thisLimit, apiResponse, scenario, stepNo,
                   request, results>>
    /\ UNCHANGED callVars

\* await fetch(...) rejects (no server, connection lost): the step fails.
FetchRejected ==
    /\ awaiting = "fetch"
    /\ StepFails(Failed("fetch", "request failed"))
    /\ UNCHANGED <<thisPage, thisLimit, apiResponse, scenario, request, response>>
    /\ UNCHANGED callVars

\* const json = await response.json() resolves; this.apiResponse = json.
JsonFulfilled ==
    /\ awaiting = "json"
    /\ response.kind = "json"
    /\ apiResponse' = response.json
    /\ StepPasses
    /\ UNCHANGED <<thisPage, thisLimit, scenario, request, response>>
    /\ UNCHANGED callVars

\* await response.json() rejects (the body is no JSON): the step fails.
JsonRejected ==
    /\ awaiting = "json"
    /\ response.kind = "malformed"
    /\ StepFails(Failed("json", "invalid json response body"))
    /\ UNCHANGED <<thisPage, thisLimit, apiResponse, scenario, request, response>>
    /\ UNCHANGED callVars

NoApiResponse == Failed("fail", "no API response!")
NotStrictEqual == Failed("strictEqual", "Expected values to be strictly equal")

\* The Then step without its if (this.apiResponse?.length): a missing or
\* falsy response is compared like any other.
ThenWithoutResponseCheck ==
    /\ AtStep("Then")
    /\ IF LengthOf(apiResponse) = JsNumber(scenario.number)
       THEN StepPasses
       ELSE StepFails(NotStrictEqual)
    /\ UNCHANGED <<thisPage, thisLimit, apiResponse, scenario, request, response>>
    /\ UNCHANGED callVars

\* Then("the User should recieve {int}", (expectedNumberOfHelpRequests) => { ... })
Then ==
    /\ AtStep("Then")
    /\ IF Truthy(apiResponse)
       THEN IF LengthOf(apiResponse) = JsNumber(scenario.number)
            THEN StepPasses
            ELSE StepFails(NotStrictEqual)
       ELSE StepFails(NoApiResponse)
    /\ UNCHANGED <<thisPage, thisLimit, apiResponse, scenario, request, response>>
    /\ UNCHANGED callVars

\* ---------------------------------------------------- extractPageOptions

Callers == 1..NumCallers

vars == <<callVars, stepVars>>

\* A local that no statement has assigned yet.
Unassigned == [k |-> "undefined", neg |-> FALSE, m |-> 0, e |-> 0]

NoOutcome == [kind |-> "none", message |-> <<>>, value |-> <<>>]
Thrown(message) == [kind |-> "thrown", message |-> message, value |-> <<>>]
Returned(value) == [kind |-> "returned", message |-> <<>>, value |-> value]

Init ==
    /\ requestQuery = [c \in Callers |-> <<>>]
    /\ pc = [c \in Callers |-> "idle"]
    /\ page = [c \in Callers |-> Unassigned]
    /\ limit = [c \in Callers |-> Unassigned]
    /\ outcome = [c \in Callers |-> NoOutcome]
    /\ StepsInit

\* extractPageOptions(request.query): the route handler calls with the
\* query mapping of its request, one of queries.
Call(c, queries) ==
    /\ pc[c] = "idle"
    /\ \E q \in queries : requestQuery' = [requestQuery EXCEPT ![c] = q]
    /\ pc' = [pc EXCEPT ![c] = "page"]
    /\ page' = [page EXCEPT ![c] = Unassigned]
    /\ limit' = [limit EXCEPT ![c] = Unassigned]
    /\ outcome' = [outcome EXCEPT ![c] = NoOutcome]

\* extractPageOptions validating limit ahead of page: an invalid limit ends
\* the call before page is looked at.
ExtractPageLimitFirst(c) ==
    /\ pc[c] = "page"
    /\ \E l \in {asNumber(requestQuery[c], "limit")} :
       \E r \in {asNumber(requestQuery[c], "page")} :
           IF l.threw \/ r.threw
           THEN /\ outcome' = [outcome EXCEPT ![c] =
                                  Thrown(IF l.threw THEN l.message ELSE r.message)]
                /\ pc' = [pc EXCEPT ![c] = "done"]
                /\ page' = page
           ELSE /\ page' = [page EXCEPT ![c] = r.n]
                /\ pc' = [pc EXCEPT ![c] = "limit"]
                /\ outcome' = outcome
    /\ UNCHANGED <<requestQuery, limit>>

\* page = asNumber(query, "page"); an Error thrown ends the call.
ExtractPage(c) ==
    /\ pc[c] = "page"
    /\ \E r \in {asNumber(requestQuery[c], "page")} :
           IF r.threw
           THEN /\ outcome' = [outcome EXCEPT ![c] = Thrown(r.message)]
                /\ pc' = [pc EXCEPT ![c] = "done"]
                /\ page' = page
           ELSE /\ page' = [page EXCEPT ![c] = r.n]
                /\ pc' = [pc EXCEPT ![c] = "limit"]
                /\ outcome' = outcome
    /\ requestQuery' = [requestQuery EXCEPT ![c] =
                           QueryAfterAsNumber(requestQuery[c], "page")]
    /\ UNCHANGED limit

\* limit = asNumber(query, "limit"); an Error thrown ends the call.
ExtractLimit(c) ==
    /\ pc[c] = "limit"
    /\ \E r \in {asNumber(requestQuery[c], "limit")} :
           IF r.threw
           THEN /\ outcome' = [outcome EXCEPT ![c] = Thrown(r.message)]
                /\ pc' = [pc EXCEPT ![c] = "done"]
                /\ limit' = limit
           ELSE /\ limit' = [limit EXCEPT ![c] = r.n]
                /\ pc' = [pc EXCEPT ![c] = "return"]
                /\ outcome' = outcome
    /\ requestQuery' = [requestQuery EXCEPT ![c] =
                           QueryAfterAsNumber(requestQuery[c], "limit")]
    /\ UNCHANGED page

\* return { page, limit };
Return(c) ==
    /\ pc[c] = "return"
    /\ outcome' = [outcome EXCEPT ![c] =
                      Returned([page |-> page[c], limit |-> limit[c]])]
    /\ pc' = [pc EXCEPT ![c] = "done"]
    /\ UNCHANGED <<requestQuery, page, limit>>

\* const { page, limit } = ...: the route handler has taken the outcome of
\* its call (the record, or the Error thrown) and is free for a next request.
Handled(c) ==
    /\ pc[c] = "done"
    /\ requestQuery' = [requestQuery EXCEPT ![c] = <<>>]
    /\ pc' = [pc EXCEPT ![c] = "idle"]
    /\ page' = [page EXCEPT ![c] = Unassigned]
    /\ limit' = [limit EXCEPT ![c] = Unassigned]
    /\ outcome' = [outcome EXCEPT ![c] = NoOutcome]

\* One caller, every query mapping of Queries, call after call.
Next ==
    /\ \/ Call(1, Queries)
       \/ ExtractPage(1)
       \/ ExtractLimit(1)
       \/ Return(1)
       \/ Handled(1)
    /\ UNCHANGED stepVars

Spec == Init /\ [][Next]_vars

\* NumCallers callers whose calls interleave step by step.
NextConc ==
    /\ \E c \in Callers :
           \/ Call(c, FewQueries)
           \/ ExtractPage(c)
           \/ ExtractLimit(c)
           \/ Return(c)
           \/ Handled(c)
    /\ UNCHANGED stepVars

SpecConc == Init /\ [][NextConc]_vars

\* Cucumber running scenario after scenario, one step at a time.
NextCucumber ==
    \/ BeginScenario
    \/ Given
    \/ When
    \/ FetchFulfilled
    \/ FetchRejected
    \/ JsonFulfilled
    \/ JsonRejected
    \/ Then

SpecCucumber == Init /\ [][NextCucumber]_vars

\* ----------------------------------------------------------------- claims

PageMessage == <<"page", " needs to be a valid number">>
LimitMessage == <<"limit", " needs to be a valid number">>

PageOf(c) == Get(requestQuery[c], "page")
LimitOf(c) == Get(requestQuery[c], "limit")

\* v is a single string whose numeric coercion is not NaN.
IsNumericString(v) == v.tag = "string" /\ ToNumber(v.s).k # "NaN"

One == Num(FALSE, 1, 0)
Ten == Num(FALSE, 1, 1)

\* C1: when page and limit are both single strings whose coercion is not
\* NaN, the call returns the record of the two coerced numbers; for page "1"
\* and limit "10" that record is {page: 1, limit: 10}.
C1_ExtractsBoth ==
    \A c \in Callers :
        pc[c] = "done" =>
            /\ (IsNumericString(PageOf(c)) /\ IsNumericString(LimitOf(c)))
                   => outcome[c] = Returned([page |-> ToNumber(PageOf(c).s),
                                             limit |-> ToNumber(LimitOf(c).s)])
            /\ (PageOf(c) = Str(<<"1">>) /\ LimitOf(c) = Str(<<"1", "0">>))
                   => outcome[c] = Returned([page |-> One, limit |-> Ten])

C1_Witness ==
    \E c \in Callers :
        /\ pc[c] = "done"
        /\ PageOf(c) = Str(<<"1">>) /\ LimitOf(c) = Str(<<"1", "0">>)
        /\ outcome[c] = Returned([page |-> One, limit |-> Ten])

\* C2: a call whose query mapping has no page key ends in the Error "page
\* needs to be a valid number" and no value, whatever limit is.
C2_MissingPageThrows ==
    \A c \in Callers :
        (pc[c] = "done" /\ "page" \notin DOMAIN requestQuery[c]) =>
            /\ outcome[c].kind = "thrown"
            /\ outcome[c].message = PageMessage
            /\ outcome[c].value = <<>>

C2_Witness ==
    \E c \in Callers :
        /\ pc[c] = "done"
        /\ "page" \notin DOMAIN requestQuery[c]
        /\ LimitOf(c) = Str(<<"1", "0">>)
        /\ outcome[c] = Thrown(PageMessage)

\* C3: a call whose page is a valid numeric string and whose query mapping
\* has no limit key ends in the Error "limit needs to be a valid number".
C3_MissingLimitThrows ==
    \A c \in Callers :
        (/\ pc[c] = "done"
         /\ IsNumericString(PageOf(c))
         /\ "limit" \notin DOMAIN requestQuery[c])
            => outcome[c] = Thrown(LimitMessage)

C3_Witness ==
    \E c \in Callers :
        /\ pc[c] = "done"
        /\ PageOf(c) = Str(<<"1", "0">>)
        /\ "limit" \notin DOMAIN requestQuery[c]
        /\ outcome[c] = Thrown(LimitMessage)

\* C4: an option whose value is a single string that coerces to NaN fails
\* with "<name> needs to be a valid number": page as soon as it is such a
\* string, limit once page has been accepted; page "page1" with limit "10"
\* fails with the page message.
C4_NotANumberThrows ==
    \A c \in Callers :
        pc[c] = "done" =>
            /\ (PageOf(c).tag = "string" /\ isNaN(ToNumber(PageOf(c).s)))
                   => outcome[c] = Thrown(PageMessage)
            /\ (/\ IsNumericString(PageOf(c))
                /\ LimitOf(c).tag = "string"
                /\ isNaN(ToNumber(LimitOf(c).s)))
                   => outcome[c] = Thrown(LimitMessage)
            /\ (/\ PageOf(c) = Str(<<"p", "a", "g", "e", "1">>)
                /\ LimitOf(c) = Str(<<"1", "0">>))
                   => outcome[c] = Thrown(PageMessage)

C4_Witness ==
    \E c \in Callers :
        /\ pc[c] = "done"
        /\ PageOf(c) = Str(<<"p", "a", "g", "e", "1">>)
        /\ LimitOf(c) = Str(<<"1", "0">>)
        /\ outcome[c] = Thrown(PageMessage)

\* C5: an empty string is invalid and never zero: page "" with limit "10"
\* fails with the page message, and an empty limit with a valid page fails
\* with the limit message.
C5_EmptyStringThrows ==
    \A c \in Callers :
        pc[c] = "done" =>
            /\ (PageOf(c) = Str(<<>>) /\ LimitOf(c) = Str(<<"1", "0">>))
                   => outcome[c] = Thrown(PageMessage)
            /\ (PageOf(c) = Str(<<"1">>) /\ LimitOf(c) = Str(<<>>))
                   => outcome[c] = Thrown(LimitMessage)

\* C6: an option whose value is no single string (absent, an array of
\* strings, a nested object) fails with "<name> needs to be a valid number",
\* also when the array or object holds numeric strings: page as soon as it
\* is such a value, limit once page has been accepted.
C6_NotAStringThrows ==
    \A c \in Callers :
        pc[c] = "done" =>
            /\ (PageOf(c).tag # "string")
                   => outcome[c] = Thrown(PageMessage)
            /\ (IsNumericString(PageOf(c)) /\ LimitOf(c).tag # "string")
                   => outcome[c] = Thrown(LimitMessage)

C6_Witness ==
    \E c \in Callers :
        /\ pc[c] = "done"
        /\ PageOf(c) = Str(<<"1">>)
        /\ LimitOf(c) = Arr(<< <<"1">> >>)
        /\ outcome[c] = Thrown(LimitMessage)

\* C7: page is checked before limit and the first invalid option ends the
\* call: an invalid or missing page gives the page Error whatever limit is,
\* the limit Error is raised only after page was accepted, and limit is
\* never extracted before page.
C7_PageBeforeLimit ==
    \A c \in Callers :
        /\ (pc[c] = "done" /\ ~IsNumericString(PageOf(c)))
               => outcome[c] = Thrown(PageMessage)
        /\ (outcome[c] = Thrown(LimitMessage))
               => (IsNumericString(PageOf(c)) /\ page[c] = ToNumber(PageOf(c).s))
        /\ (limit[c] # Unassigned) => (page[c] # Unassigned)
        /\ (pc[c] = "limit") => (page[c] # Unassigned /\ limit[c] = Unassigned)

C7_Witness ==
    \E c \in Callers :
        /\ pc[c] = "done"
        /\ "page" \notin DOMAIN requestQuery[c]
        /\ "limit" \notin DOMAIN requestQuery[c]
        /\ outcome[c] = Thrown(PageMessage)

IsNumber(n) == n.k \in {"num", "Infinity", "NaN"}

\* C8: a call ends either in a record with page and limit both populated or
\* in an Error with no value; no record with one field unset is returned,
\* also when page is valid and limit is not, and nothing is returned before
\* the call has ended.
C8_NoPartialResult ==
    \A c \in Callers :
        /\ (pc[c] = "done") => (outcome[c].kind \in {"returned", "thrown"})
        /\ (pc[c] # "done") => (outcome[c] = NoOutcome)
        /\ (outcome[c].kind = "returned") =>
               /\ DOMAIN outcome[c].value = {"page", "limit"}
               /\ IsNumber(outcome[c].value.page)
               /\ IsNumber(outcome[c].value.limit)
               /\ outcome[c].message = <<>>
        /\ (outcome[c].kind = "thrown") => (outcome[c].value = <<>>)

C8_Witness ==
    \E c \in Callers :
        /\ pc[c] = "done"
        /\ PageOf(c) = Str(<<"1">>)
        /\ ~IsNumericString(LimitOf(c))
        /\ page[c] = One
        /\ outcome[c].kind = "thrown" /\ outcome[c].value = <<>>

\* C9: a call that fails has the message "page needs to be a valid number"
\* or "limit needs to be a valid number", the one of the option whose value
\* is invalid; a call ends in no other way than a record or such an Error.
C9_OnlyTwoMessages ==
    \A c \in Callers :
        /\ (pc[c] = "done" /\ outcome[c].kind # "returned")
               => (outcome[c].kind = "thrown")
        /\ (outcome[c].kind = "thrown") =>
               /\ outcome[c].message \in {PageMessage, LimitMessage}
               /\ (outcome[c].message = PageMessage)
                      => ~IsNumericString(PageOf(c))
               /\ (outcome[c].message = LimitMessage)
                      => ~IsNumericString(LimitOf(c))

C9_Witness ==
    \E c \in Callers :
        /\ pc[c] = "done"
        /\ PageOf(c) = Str(<<"1">>)
        /\ LimitOf(c) = Str(<<"p">>)
        /\ outcome[c] = Thrown(LimitMessage)

\* C10: extractPageOptions is deterministic: two calls that were given the
\* same query mapping end in the same outcome (equal page and limit, or the
\* same Error message), in whatever order they ran and whatever other calls
\* ran in between or meanwhile.
C10_Deterministic ==
    \A a, b \in Callers :
        (pc[a] = "done" /\ pc[b] = "done" /\ requestQuery[a] = requestQuery[b])
            => outcome[a] = outcome[b]

C10_Witness ==
    \E a, b \in Callers :
        /\ a # b
        /\ pc[a] = "done" /\ pc[b] = "done"
        /\ requestQuery[a] = requestQuery[b]
        /\ PageOf(a) = Str(<<"1">>) /\ LimitOf(a) = Str(<<"1", "0">>)
        /\ outcome[a] = Returned([page |-> One, limit |-> Ten])
        /\ outcome[b] = outcome[a]

InCall(c) == pc[c] \in {"page", "limit", "return"}

\* C11: extractPageOptions leaves the query mapping it was given unchanged:
\* no step of a call, whether the call ends in a record or in an Error,
\* changes the value of a key, adds a key or removes one.
C11_QueryUnchanged ==
    [][\A c \in Callers : InCall(c) => requestQuery'[c] = requestQuery[c]]_vars

C11_Witness ==
    \E c \in Callers :
        /\ pc[c] = "done"
        /\ requestQuery[c] = MkQuery(Str(<<"1">>), Undefined, Str(<<"1">>))
        /\ outcome[c] = Thrown(LimitMessage)

MinusOne == Num(TRUE, 1, 0)
OneAndAHalf == Num(FALSE, 15, 0 - 1)

\* n is a number below zero.
IsNegative(n) == n.neg /\ (n.k = "Infinity" \/ (n.k = "num" /\ n.m > 0))

C13_NegativePageThrows ==
    \A c \in Callers :
        (/\ pc[c] = "done"
         /\ PageOf(c).tag = "string"
         /\ IsNegative(ToNumber(PageOf(c).s)))
            => outcome[c].kind = "thrown"

\* C16: a fractional numeric string is not rejected: an option given as
\* such a string (as "1.5") succeeds and its value is the fraction itself,
\* neither rounded nor truncated.
C16_FractionAccepted ==
    \A c \in Callers :
        /\ (/\ pc[c] \in {"limit", "return", "done"}
            /\ PageOf(c).tag = "string"
            /\ ToNumber(PageOf(c).s).e < 0)
               => (/\ page[c] = ToNumber(PageOf(c).s)
                   /\ page[c].e < 0
                   /\ outcome[c] # Thrown(PageMessage))
        /\ (/\ pc[c] = "done"
            /\ IsNumericString(PageOf(c))
            /\ LimitOf(c).tag = "string"
            /\ ToNumber(LimitOf(c).s).e < 0)
               => (/\ outcome[c].kind = "returned"
                   /\ outcome[c].value.limit = ToNumber(LimitOf(c).s)
                   /\ outcome[c].value.limit.e < 0)
        /\ (/\ pc[c] = "done"
            /\ PageOf(c) = Str(<<"1", ".", "5">>)
            /\ LimitOf(c) = Str(<<"1", ".", "5">>))
               => outcome[c] = Returned([page |-> OneAndAHalf,
                                         limit |-> OneAndAHalf])

C16_Witness ==
    \E c \in Callers :
        /\ pc[c] = "done"
        /\ PageOf(c) = Str(<<"1", ".", "5">>)
        /\ LimitOf(c) = Str(<<"1", "0">>)
        /\ outcome[c] = Returned([page |-> OneAndAHalf, limit |-> Ten])

\* C20: every record extractPageOptions returns has a page and a limit that
\* are numbers and not NaN.
C20_ReturnedNumbers ==
    \A c \in Callers :
        (outcome[c].kind = "returned") =>
            /\ outcome[c].value.page.k \in {"num", "Infinity"}
            /\ outcome[c].value.limit.k \in {"num", "Infinity"}
            /\ ~isNaN(outcome[c].value.page)
            /\ ~isNaN(outcome[c].value.limit)

C20_Witness ==
    \E c \in Callers :
        /\ pc[c] = "done"
        /\ outcome[c].kind = "returned"
        /\ PageOf(c) = Str(<<"I", "n", "f", "i", "n", "i", "t", "y">>)
        /\ outcome[c].value.page = Infinity(FALSE)
        /\ outcome[c].value.limit = One

\* The outcome of a call that nothing runs beside, from the values under
\* page and limit.
OutcomeFor(pv, lv) ==
    IF ~IsNumericString(pv) THEN Thrown(PageMessage)
    ELSE IF ~IsNumericString(lv) THEN Thrown(LimitMessage)
    ELSE Returned([page |-> ToNumber(pv.s), limit |-> ToNumber(lv.s)])

AloneOutcome(q) == OutcomeFor(Get(q, "page"), Get(q, "limit"))

\* C14: calls of extractPageOptions that run concurrently with no
\* coordination each end in the outcome they would have alone: at every
\* point of every interleaving a call's locals and its outcome are those of
\* its own query mapping.
C14_ConcurrentAsAlone ==
    \A c \in Callers :
        /\ (pc[c] = "done") => outcome[c] = AloneOutcome(requestQuery[c])
        /\ (pc[c] \in {"limit", "return"})
               => (IsNumericString(PageOf(c)) /\ page[c] = ToNumber(PageOf(c).s))
        /\ (pc[c] = "return")
               => (IsNumericString(LimitOf(c)) /\ limit[c] = ToNumber(LimitOf(c).s))
        /\ InCall(c) => outcome[c] = NoOutcome

C14_Witness ==
    \E a, b \in Callers :
        /\ a # b
        /\ pc[a] = "return" /\ pc[b] = "limit"
        /\ PageOf(a) = Str(<<"1">>) /\ LimitOf(a) = Str(<<"1", "0">>)
        /\ PageOf(b) = Str(<<"1", "0">>) /\ LimitOf(b) = Str(<<"1">>)
        /\ page[a] = One /\ limit[a] = Ten /\ page[b] = Ten

DigitChars == {DecDigits[i] : i \in DOMAIN DecDigits}

\* s[i..j] is digits with at most one decimal point, one digit at least.
IsDigitsWithPoint(s, i, j) ==
    /\ \E k \in i..j : s[k] \in DigitChars
    /\ \A k \in i..j : s[k] \in DigitChars \cup {"."}
    /\ Cardinality({k \in i..j : s[k] = "."}) <= 1

\* s[i..j] is an exponent: e or E, an optional sign, digits.
IsExponent(s, i, j) ==
    /\ i < j
    /\ s[i] \in {"e", "E"}
    /\ \E d \in {IF s[i + 1] \in {"+", "-"} THEN i + 2 ELSE i + 1} :
           d <= j /\ \A k \in d..j : s[k] \in DigitChars

\* A decimal numeral: an optional sign, digits with an optional decimal
\* point, an optional exponent.
IsDecimalNumeral(s) ==
    /\ Len(s) > 0
    /\ \E i \in {IF s[1] \in {"+", "-"} THEN 2 ELSE 1} :
       \E j \in i..Len(s) :
           /\ IsDigitsWithPoint(s, i, j)
           /\ (j = Len(s) \/ IsExponent(s, j + 1, Len(s)))

\* C15: a string is accepted as a number only when it is a decimal numeral;
\* any other string (whitespace only, "0x10", "Infinity") fails with the
\* "<name> needs to be a valid number" Error of its option.
C15_OnlyDecimalNumerals ==
    \A c \in Callers :
        /\ (pc[c] = "done" /\ PageOf(c).tag = "string")
               => (outcome[c] = Thrown(PageMessage)
                      <=> ~IsDecimalNumeral(PageOf(c).s))
        /\ (pc[c] = "done" /\ IsNumericString(PageOf(c))
                /\ LimitOf(c).tag = "string")
               => (outcome[c] = Thrown(LimitMessage)
                      <=> ~IsDecimalNumeral(LimitOf(c).s))

\* C17: the outcome of extractPageOptions depends on the values under page
\* and limit only: it is the one outcome fixed by these two values,
\* whatever other keys and values the query mapping has.
C17_OnlyPageAndLimit ==
    \A c \in Callers :
        (pc[c] = "done") =>
            /\ outcome[c] = OutcomeFor(PageOf(c), LimitOf(c))
            /\ \A q \in {MkQuery(PageOf(c), LimitOf(c), ov) : ov \in OtherValues} :
                   outcome[c] = AloneOutcome(q)

C17_Witness ==
    \E c \in Callers :
        /\ pc[c] = "done"
        /\ requestQuery[c] = MkQuery(Undefined, Str(<<"1", "0">>), Str(<<"1">>))
        /\ outcome[c] = Thrown(PageMessage)

\* The values that count as no response: nothing stored, or a falsy value.
FalsyValues == {JsUndefined, JsNull, JsBoolean(FALSE), JsNumber(0), JsString(0)}
IsStoredResponse(v) == v \notin FalsyValues
HasLength(v, n) == v.t \in {"array", "string"} /\ v.n = n

\* C18: the step "the User should recieve {int}" passes exactly when an API
\* response is stored and its length strictly equals the expected number;
\* with no response stored, or a falsy one, it fails with "no API
\* response!"; with a response of another length, or of no length, it fails
\* the equality assertion.
C18_ThenStep ==
    \A i \in DOMAIN results :
        (scenario.steps[i] = "Then" /\ results[i].status \in {"passed", "failed"})
            => /\ (results[i] = Passed)
                      <=> (/\ IsStoredResponse(apiResponse)
                           /\ HasLength(apiResponse, scenario.number))
               /\ (~IsStoredResponse(apiResponse))
                      => (/\ results[i].status = "failed"
                          /\ results[i].message = "no API response!")
               /\ (/\ IsStoredResponse(apiResponse)
                   /\ ~HasLength(apiResponse, scenario.number))
                      => (/\ results[i].status = "failed"
                          /\ results[i].operator = "strictEqual")

C18_Witness ==
    /\ scenario.steps = OutlineSteps
    /\ scenario.number = 5
    /\ stepNo = 4
    /\ apiResponse = JsArray(5)
    /\ results = <<Passed, Passed, Passed>>

WhenFailed(sc, rs) ==
    \E i \in DOMAIN rs : sc.steps[i] = "When" /\ rs[i].status = "failed"

\* C19: in a scenario of the steps Given, When, Then the When step requests
\* /v1/help-request with the page and the limit the Given step of this
\* scenario stored; apiResponse is assigned only once the request and the
\* decoding of its body have both completed, and then the decoded value; a
\* When step that fails leaves apiResponse as it was.
C19_WhenStep ==
    /\ []((scenario.steps = OutlineSteps /\ request # NoRequest)
            => /\ request.path = "/v1/help-request"
               /\ DOMAIN request.query = {"page", "limit"}
               /\ thisPage = JsNumber(scenario.page)
               /\ thisLimit = JsNumber(scenario.limit)
               /\ ToNumber(request.query["page"].s)
                      = Normalize(FALSE, scenario.page, 0)
               /\ ToNumber(request.query["limit"].s)
                      = Normalize(FALSE, scenario.limit, 0))
    /\ [][/\ (apiResponse' # apiResponse)
                => (/\ awaiting = "json"
                    /\ response.kind = "json"
                    /\ apiResponse' = response.json)
          /\ (awaiting # "none" /\ results'[stepNo] = Passed)
                => apiResponse' = response.json
          /\ (~WhenFailed(scenario, results) /\ WhenFailed(scenario', results'))
                => apiResponse' = apiResponse]_vars

C19_Witness ==
    /\ scenario.steps = OutlineSteps
    /\ scenario.page = 2
    /\ stepNo = 3
    /\ request = RequestFor(JsNumber(2), JsNumber(10))
    /\ request.query["limit"] = Str(<<"1", "0">>)
    /\ response = [kind |-> "json", json |-> JsArray(10)]
    /\ apiResponse = JsArray(10)
    /\ results = <<Passed, Passed, Pending>>

\* The Then step at index i of the scenario under way has compared the
\* length of a response with its number (it did not end in "no API
\* response!").
ThenCompared(i) ==
    /\ i \in DOMAIN results
    /\ scenario.steps[i] = "Then"
    /\ results[i].status \in {"passed", "failed"}
    /\ results[i] # NoApiResponse

\* A When step of the scenario under way, ahead of step i, has stored the
\* response to the request for this scenario's page and limit.
StoredByOwnWhen(i) ==
    /\ \E j \in 1..(i - 1) : scenario.steps[j] = "When" /\ results[j] = Passed
    /\ request = RequestFor(JsNumber(scenario.page), JsNumber(scenario.limit))
    /\ response.kind = "json"
    /\ apiResponse = response.json

\* C21: over any sequence of scenarios sharing the state of the step
\* definitions, the response a Then step compares against is the one the
\* When step of the same scenario stored for that scenario's page and
\* limit, never a response or a page and limit left by another scenario.
C21_NoLeftOverResponse ==
    \A i \in DOMAIN results : ThenCompared(i) => StoredByOwnWhen(i)

====
